---------------------------- MODULE Spec2Model ----------------------------
(***************************************************************************)
(* Radial solutions of the ln-transformed radial equation                  *)
(* (src/src/green/InterfacesImpl.hpp, namespace interfaces).               *)
(*                                                                         *)
(* Radii live on the integer grid 1..RMax.  Function values and            *)
(* derivatives are fixed-point numbers with SC units per 1.0, saturating   *)
(* at +-HugeVal the way a double saturates at +-inf.  A RadialSolution is  *)
(* the triple <<grid, function, derivative>> of sequences, i.e. f[0], f[1],*)
(* f[2] of the std::array become f[1], f[2], f[3] here.                    *)
(*                                                                         *)
(* The tolerances eps_abs_, eps_rel_, factor_x_, factor_dxdt_ of           *)
(* IntegratorParameters only steer the error control of the stepper; they  *)
(* are folded into the step controller (AcceptedStep, NextStep), which     *)
(* shrinks the step where the profile varies and lets it grow elsewhere.   *)
(***************************************************************************)
EXTENDS Integers, Sequences, FiniteSets, TLC

VARIABLES
    params,   \* the IntegratorParameters shared by all calls
    eval,     \* the ProfileEvaluator shared by all calls: r -> <<eps, epsPrime>>
    f,        \* f[i]: the RadialSolution handed to call i by reference
    pc,       \* pc[i]: position of call i
    st,       \* st[i]: locals of call i (kind, L, stepper time, step, state, end)
    pre,      \* pre[i]: content of f[i] when call i was entered (history)
    emitted,  \* emitted[i]: triples passed to observer by call i, in order (history)
    evald,    \* evald[i]: radii at which call i evaluated the profile (history)
    nrev,     \* nrev[i]: how often call i applied reverse (history)
    sol,      \* recorder scenario: the RadialSolution under observe/reverse
    ops,      \* recorder scenario: operations applied so far (history)
    arg,      \* evaluator scenario: inputs of the evaluator call
    ret,      \* evaluator scenario: value returned by the evaluator call
    given     \* the evaluator and parameters as first handed to the calls (history)

vars == <<params, eval, f, pc, st, pre, emitted, evald, nrev, sol, ops, arg, ret, given>>

---------------------------------------------------------------------------
\* Bounds of the model

\* largest radius of the grid
RMax == 3
\* largest angular momentum
MaxL == 1
\* largest |observer_step_| and largest step the controller proposes
MaxStep == 2
\* longest RadialSolution in the recorder scenario
MaxLen == 3
\* most recorder operations in a row
MaxOps == 5
\* magnitude at which a fixed-point value saturates
HugeVal == 30000

\* fixed-point units per 1.0
SC == 12

\* radii on the grid; all positive, so that std::log and the divisions by r
\* are finite
Radii == 1..RMax

AngularMomenta == 0..MaxL

\* values of observer_step_; the constructor takes either sign.  A zero step
\* is left out: do_step would then be asked for a step of length zero
ObserverSteps == (-1..MaxStep) \ {0}

\* callers
Threads == {1, 2}

---------------------------------------------------------------------------
\* Arithmetic helpers

Abs(n) == IF n < 0 THEN -n ELSE n

Sgn(n) == IF n > 0 THEN 1 ELSE -1

Min(a, b) == IF a < b THEN a ELSE b

\* a double that overflows becomes +-inf
Clamp(v) == IF v > HugeVal THEN HugeVal ELSE IF v < -HugeVal THEN -HugeVal ELSE v

\* quotient of two doubles in fixed point, rounded towards zero; a division by
\* zero gives an infinity
Quot(a, b) ==
    IF b = 0 THEN (IF a < 0 THEN -HugeVal ELSE HugeVal)
    ELSE IF a < 0 THEN -((-a) \div b)
    ELSE a \div b

\* 1000 * ln r for r = 1, 2, ...
LnTable == <<0, 693, 1099, 1386, 1609, 1792, 1946, 2079>>

\* std::log on the grid, in fixed point
Ln(r) == (LnTable[r] * SC) \div 1000

\* sequences
Rev(s) == [k \in 1..Len(s) |-> s[Len(s) + 1 - k]]

Last(s) == s[Len(s)]

StrictlyIncreasing(s) == \A k \in 1..(Len(s) - 1) : s[k] < s[k + 1]

StrictlyDecreasing(s) == \A k \in 1..(Len(s) - 1) : s[k] > s[k + 1]

---------------------------------------------------------------------------
\* Data

EmptySolution == << <<>>, <<>>, <<>> >>

\* the i-th (grid, function, derivative) triple of a solution
Triple(s, k) == <<s[1][k], s[2][k], s[3][k]>>

\* the solution as a sequence of triples; needs equal lengths
Triples(s) == [k \in 1..Len(s[1]) |-> Triple(s, k)]

\* the solution holding the given sequence of triples
FromTriples(ts) ==
    << [k \in 1..Len(ts) |-> ts[k][1]],
       [k \in 1..Len(ts) |-> ts[k][2]],
       [k \in 1..Len(ts) |-> ts[k][3]] >>

\* IntegratorParameters(e_abs, e_rel, f_x, f_dxdt, r0, rinf, step): stores its
\* arguments, checks nothing
IntegratorParameters(r0, rinf, step) ==
    [r_0_ |-> r0, r_infinity_ |-> rinf, observer_step_ |-> step]

\* values a profile takes at a point: vanishing, flat, varying
ProfilePoints == { <<0, 0>>, <<1, 0>>, <<2, 1>> }

Profiles == [Radii -> ProfilePoints]

\* MathUtils.hpp: numericalZero(value), |value| below a fixed threshold
numericalZero(v) == v = 0

---------------------------------------------------------------------------
\* LnTransformedRadial::operator()

\* variant: operator() without the check of the permittivity
SystemThrowsNever(ev, r) == FALSE

\* the throw of operator(): the profile is evaluated first, a numerically
\* zero permittivity raises std::domain_error
SystemThrows(ev, r) == numericalZero(ev[r][1])

\* drhodr of operator() for a permittivity that is not numerically zero
SystemRhs(ev, L, rho, r) ==
    LET gamma_epsilon == Quot(SC * ev[r][2], ev[r][1])
    IN  << rho[2],
           Clamp(-Quot(rho[2] * (rho[2] + Quot(2 * SC, r) + gamma_epsilon), SC)
                 + Quot(SC * L * (L + 1), r * r)) >>

---------------------------------------------------------------------------
\* Trajectory recorder

\* variant: an observer that keeps only the latest observation
observerOverwrite(s, x, r) == << <<r>>, <<x[1]>>, <<x[2]>> >>

\* variant: an observer that stores x[0] where x[1] belongs
observerValueTwice(s, x, r) ==
    << Append(s[1], r), Append(s[2], x[1]), Append(s[3], x[1]) >>

observer(s, x, r) ==
    << Append(s[1], r), Append(s[2], x[1]), Append(s[3], x[2]) >>

Rotate(s) == IF Len(s) = 0 THEN s ELSE <<Last(s)>> \o SubSeq(s, 1, Len(s) - 1)

\* variant: std::rotate by one in place of std::reverse
reverseRotate(s) == << Rotate(s[1]), Rotate(s[2]), Rotate(s[3]) >>

\* variant: a reverse that leaves the solution as it is
reverseNothing(s) == s

reverse(s) == << Rev(s[1]), Rev(s[2]), Rev(s[3]) >>

---------------------------------------------------------------------------
\* Boost.Odeint: integrate_adaptive with a dense-output stepper, as called
\* by computeZeta and computeOmega
\*
\*   st.initialize(start_state, start_time, dt);
\*   while (less_with_sign(st.current_time(), end_time, st.current_time_step())) {
\*       while (less_eq_with_sign(st.current_time() + st.current_time_step(),
\*                                end_time, st.current_time_step())) {
\*           obs(st.current_state(), st.current_time());
\*           st.do_step(system);
\*       }
\*       st.initialize(st.current_state(), st.current_time(),
\*                     end_time - st.current_time());
\*   }
\*   obs(st.current_state(), st.current_time());

LessWithSign(t1, t2, dt) == IF dt > 0 THEN t2 - t1 > 0 ELSE t1 - t2 > 0

LessEqWithSign(t1, t2, dt) == IF dt > 0 THEN t1 - t2 <= 0 ELSE t2 - t1 <= 0

\* radii at which a trial step of size dt from t evaluates the system, given
\* as offsets 0..|dt| in the direction of travel
TrialPoint(t, dt, k) == t + Sgn(dt) * k

\* offsets of the trial step at which the system throws
ThrowingOffsets(ev, t, dt) ==
    { k \in 0..Abs(dt) : SystemThrows(ev, TrialPoint(t, dt, k)) }

FirstOf(S) == CHOOSE k \in S : \A m \in S : k <= m

\* radii evaluated by a trial step: all of them, or those up to the throw
EvaluatedBy(ev, t, dt) ==
    LET bad == ThrowingOffsets(ev, t, dt)
        upto == IF bad = {} THEN Abs(dt) ELSE FirstOf(bad)
    IN  { TrialPoint(t, dt, k) : k \in 0..upto }

\* error control: a trial step over a region where the profile varies is
\* rejected and retried with the unit step
Rejected(ev, t, dt) ==
    \E k \in 0..Abs(dt) : ev[TrialPoint(t, dt, k)][2] # 0

AcceptedStep(ev, t, dt) == IF Rejected(ev, t, dt) THEN 1 ELSE Abs(dt)

\* the step the controller proposes after an accepted step of size h
NextStep(h, rejected) == IF rejected THEN h ELSE Min(h + 1, MaxStep)

\* the state carried over n unit substeps from r in direction sgn
RECURSIVE Flow(_, _, _, _, _, _)
Flow(ev, L, x, r, sgn, n) ==
    IF n = 0 THEN x
    ELSE LET d == SystemRhs(ev, L, x, r)
         IN  Flow(ev, L, << Clamp(x[1] + sgn * d[1]), Clamp(x[2] + sgn * d[2]) >>,
                  r + sgn, sgn, n - 1)

\* st.do_step(system) when no evaluation throws
DoStep(ev, s) ==
    LET h == AcceptedStep(ev, s.t, s.dt)
        sgn == Sgn(s.dt)
    IN  [s EXCEPT !.x = Flow(ev, s.L, s.x, s.t, sgn, h),
                  !.t = s.t + sgn * h,
                  !.dt = sgn * NextStep(h, Rejected(ev, s.t, s.dt))]

---------------------------------------------------------------------------
\* computeZeta and computeOmega

NoCall == [kind |-> "none", L |-> 0, t |-> 0, dt |-> 0, x |-> <<0, 0>>, end |-> 0]

\* init_zeta_
ZetaInit(L, p) == << L * Ln(p.r_0_), Quot(L * SC, p.r_0_) >>

\* variant: the irregular initial condition taken at r_0_
OmegaInitAtZero(L, p) == << -(L + 1) * Ln(p.r_0_), Quot(-(L + 1) * SC, p.r_0_) >>

\* init_omega_
OmegaInit(L, p) ==
    << -(L + 1) * Ln(p.r_infinity_), Quot(-(L + 1) * SC, p.r_infinity_) >>

\* variant: every observer bound to one and the same solution
BoundSolutionShared(i) == 1

\* std::ref(f): the solution the observer of call i is bound to
BoundSolution(i) == i

\* obs(st.current_state(), st.current_time())
Observe(i) ==
    /\ f' = [f EXCEPT ![BoundSolution(i)] =
                observer(f[BoundSolution(i)], st[i].x, st[i].t)]
    /\ emitted' = [emitted EXCEPT ![i] = Append(@, <<st[i].t, st[i].x[1], st[i].x[2]>>)]

\* entry of computeZeta up to st.initialize
computeZeta(i, L) ==
    /\ pc[i] = "idle"
    /\ st' = [st EXCEPT ![i] = [kind |-> "zeta", L |-> L,
                                t |-> params.r_0_, dt |-> params.observer_step_,
                                x |-> ZetaInit(L, params),
                                end |-> params.r_infinity_]]
    /\ pc' = [pc EXCEPT ![i] = "outer"]
    /\ pre' = [pre EXCEPT ![i] = f[i]]
    /\ UNCHANGED <<params, eval, f, emitted, evald, nrev, sol, ops, arg, ret, given>>

\* entry of computeOmega up to st.initialize
computeOmega(i, L) ==
    /\ pc[i] = "idle"
    /\ st' = [st EXCEPT ![i] = [kind |-> "omega", L |-> L,
                                t |-> params.r_infinity_, dt |-> -params.observer_step_,
                                x |-> OmegaInit(L, params),
                                end |-> params.r_0_]]
    /\ pc' = [pc EXCEPT ![i] = "outer"]
    /\ pre' = [pre EXCEPT ![i] = f[i]]
    /\ UNCHANGED <<params, eval, f, emitted, evald, nrev, sol, ops, arg, ret, given>>

\* the outer while condition holds
EnterOuter(i) ==
    /\ pc[i] = "outer"
    /\ LessWithSign(st[i].t, st[i].end, st[i].dt)
    /\ pc' = [pc EXCEPT ![i] = "inner"]
    /\ UNCHANGED <<params, eval, f, st, pre, emitted, evald, nrev, sol, ops, arg, ret, given>>

\* body of the inner while: observe, then do_step; operator() may throw
Step(i) ==
    /\ pc[i] = "inner"
    /\ LessEqWithSign(st[i].t + st[i].dt, st[i].end, st[i].dt)
    /\ Observe(i)
    /\ evald' = [evald EXCEPT ![i] = @ \cup EvaluatedBy(eval, st[i].t, st[i].dt)]
    /\ IF ThrowingOffsets(eval, st[i].t, st[i].dt) # {}
       THEN /\ pc' = [pc EXCEPT ![i] = "failed"]
            /\ st' = st
       ELSE /\ pc' = pc
            /\ st' = [st EXCEPT ![i] = DoStep(eval, @)]
    /\ UNCHANGED <<params, eval, pre, nrev, sol, ops, arg, ret, given>>

\* the inner while condition fails: st.initialize with the remaining distance
Reinitialize(i) ==
    /\ pc[i] = "inner"
    /\ ~LessEqWithSign(st[i].t + st[i].dt, st[i].end, st[i].dt)
    /\ st' = [st EXCEPT ![i].dt = st[i].end - st[i].t]
    /\ pc' = [pc EXCEPT ![i] = "outer"]
    /\ UNCHANGED <<params, eval, f, pre, emitted, evald, nrev, sol, ops, arg, ret, given>>

\* the outer while condition fails: the last obs; computeZeta returns
FinalObserve(i) ==
    /\ pc[i] = "outer"
    /\ ~LessWithSign(st[i].t, st[i].end, st[i].dt)
    /\ Observe(i)
    /\ pc' = [pc EXCEPT ![i] = IF st[i].kind = "omega" THEN "reverse" ELSE "done"]
    /\ UNCHANGED <<params, eval, st, pre, evald, nrev, sol, ops, arg, ret, given>>

\* reverse(f) of computeOmega; computeOmega returns
ReverseAndReturn(i) ==
    /\ pc[i] = "reverse"
    /\ f' = [f EXCEPT ![BoundSolution(i)] = reverse(@)]
    /\ nrev' = [nrev EXCEPT ![i] = @ + 1]
    /\ pc' = [pc EXCEPT ![i] = "done"]
    /\ UNCHANGED <<params, eval, st, pre, emitted, evald, sol, ops, arg, ret, given>>

Call(i) ==
    \/ \E L \in AngularMomenta : computeZeta(i, L)
    \/ \E L \in AngularMomenta : computeOmega(i, L)
    \/ EnterOuter(i)
    \/ Step(i)
    \/ Reinitialize(i)
    \/ FinalObserve(i)
    \/ ReverseAndReturn(i)

---------------------------------------------------------------------------
\* One integration call on a solution supplied by the caller

\* content a caller's solution may hold before the call
PriorSolutions ==
    { EmptySolution, FromTriples(<< <<1, 5, 7>>, <<2, 6, 8>> >>) }

NoArg == [s |-> EmptySolution, L |-> 0, point |-> 0, bound |-> 0]

NoRet == [fn |-> "none", v |-> 0]

Idle ==
    /\ pc = [i \in Threads |-> "idle"]
    /\ st = [i \in Threads |-> NoCall]
    /\ pre = [i \in Threads |-> EmptySolution]
    /\ emitted = [i \in Threads |-> <<>>]
    /\ evald = [i \in Threads |-> {}]
    /\ nrev = [i \in Threads |-> 0]

Init ==
    /\ params \in { IntegratorParameters(r0, rinf, step) :
                      r0 \in Radii, rinf \in Radii, step \in ObserverSteps }
    /\ eval \in Profiles
    /\ f \in { [i \in Threads |-> IF i = 1 THEN s ELSE EmptySolution] :
                 s \in PriorSolutions }
    /\ Idle
    /\ sol = EmptySolution /\ ops = <<>> /\ arg = NoArg /\ ret = NoRet
    /\ given = [eval |-> eval, params |-> params]

Next == Call(1)

Spec == Init /\ [][Next]_vars

---------------------------------------------------------------------------
\* Properties of one integration call (specification Spec)

\* componentwise concatenation of two solutions
Concat(a, b) == << a[1] \o b[1], a[2] \o b[2], a[3] \o b[3] >>

EqualLengths(s) == Len(s[1]) = Len(s[2]) /\ Len(s[2]) = Len(s[3])

\* call i was made on an empty solution, as a call that returns a new one is
Fresh(i) == pc[i] # "idle" /\ pre[i] = EmptySolution

Lo == Min(params.r_0_, params.r_infinity_)

Hi == IF params.r_0_ < params.r_infinity_ THEN params.r_infinity_ ELSE params.r_0_

\* the structural invariant of a returned solution
Structural(s) == EqualLengths(s) /\ Len(s[1]) >= 2 /\ StrictlyIncreasing(s[1])

C2_NoPartialResult ==
    \A i \in Threads : pc[i] = "failed" => f[i] = pre[i]

C4_MalformedRejected ==
    \A i \in Threads :
        pc[i] # "idle" => (params.r_0_ < params.r_infinity_ /\ params.r_0_ > 0)

\* the initial-condition triples
ZetaStart(i) ==
    << params.r_0_, st[i].L * Ln(params.r_0_), Quot(st[i].L * SC, params.r_0_) >>

OmegaStart(i) ==
    << params.r_infinity_, -((st[i].L + 1) * Ln(params.r_infinity_)),
       -Quot((st[i].L + 1) * SC, params.r_infinity_) >>

\* the order of recording and the single late reverse of C8
Ordering(i) ==
    /\ st[i].kind = "omega" =>
          /\ pc[i] \in {"outer", "inner", "reverse", "failed"} =>
                /\ nrev[i] = 0
                /\ f[i] = FromTriples(emitted[i])
                /\ StrictlyDecreasing(f[i][1])
                /\ Len(emitted[i]) >= 1 => emitted[i][1] = OmegaStart(i)
          /\ pc[i] = "done" =>
                /\ nrev[i] = 1
                /\ Triple(f[i], Len(f[i][1])) = OmegaStart(i)
                /\ f[i][1][1] = params.r_0_
                /\ Last(f[i][1]) = params.r_infinity_
    /\ st[i].kind = "zeta" =>
          /\ nrev[i] = 0
          /\ pc[i] = "done" =>
                /\ Triple(f[i], 1) = ZetaStart(i)
                /\ Last(f[i][1]) = params.r_infinity_

---------------------------------------------------------------------------
\* Several integration calls at once (specification SpecPar): every call has
\* its own solution, all read the same evaluator and parameters

\* what a call computes when it runs alone on an empty solution: the
\* sequential reading of integrate_adaptive, from the stepper state s with
\* the observations acc so far
RECURSIVE RunAlone(_, _, _)
RunAlone(ev, s, acc) ==
    IF LessWithSign(s.t, s.end, s.dt)
    THEN IF LessEqWithSign(s.t + s.dt, s.end, s.dt)
         THEN IF ThrowingOffsets(ev, s.t, s.dt) # {}
              THEN [status |-> "failed", sol |-> observer(acc, s.x, s.t)]
              ELSE RunAlone(ev, DoStep(ev, s), observer(acc, s.x, s.t))
         ELSE RunAlone(ev, [s EXCEPT !.dt = s.end - s.t], acc)
    ELSE [status |-> "done",
          sol |-> IF s.kind = "omega"
                  THEN reverse(observer(acc, s.x, s.t))
                  ELSE observer(acc, s.x, s.t)]

\* computeZeta(L, f, eval, params) resp. computeOmega(L, f, eval, params),
\* run alone with f empty
Alone(kind, L, ev, p) ==
    RunAlone(ev,
             IF kind = "omega"
             THEN [kind |-> kind, L |-> L, t |-> p.r_infinity_,
                   dt |-> -p.observer_step_, x |-> OmegaInit(L, p), end |-> p.r_0_]
             ELSE [kind |-> kind, L |-> L, t |-> p.r_0_,
                   dt |-> p.observer_step_, x |-> ZetaInit(L, p), end |-> p.r_infinity_],
             EmptySolution)

InitPar ==
    /\ params \in { IntegratorParameters(1, RMax, step) : step \in 1..MaxStep }
    /\ eval \in Profiles
    /\ f = [i \in Threads |-> EmptySolution]
    /\ Idle
    /\ sol = EmptySolution /\ ops = <<>> /\ arg = NoArg /\ ret = NoRet
    /\ given = [eval |-> eval, params |-> params]

NextPar == \E i \in Threads : Call(i)

SpecPar == InitPar /\ [][NextPar]_vars

\* every call that has ended left in its own solution what it computes alone
AsAlone ==
    \A i \in Threads :
        pc[i] \in {"done", "failed"} =>
            LET alone == Alone(st[i].kind, st[i].L, given.eval, given.params)
            IN  pc[i] = alone.status /\ f[i] = alone.sol

\* C7: however the steps of several calls interleave, each call ends with
\* the solution (and the outcome) it has when run alone, and the shared
\* evaluator and parameters are as they were handed over.
C7_Independent ==
    /\ AsAlone
    /\ eval = given.eval /\ params = given.params

\* a backward call has returned three observations while a call for another
\* L, entered before it returned, is in its loop with an observation recorded
C7_Witness ==
    /\ pc[1] = "done" /\ st[1].kind = "omega" /\ Len(f[1][1]) = 3
    /\ pc[2] = "inner" /\ Len(f[2][1]) >= 1
    /\ st[1].L # st[2].L

---------------------------------------------------------------------------
\* The recorder alone (specification SpecRec): observe and reverse applied
\* in any order to a solution that starts empty

RecRadii == {1, 2}

RecStates == { <<10, 20>>, <<30, 40>> }

InitRec ==
    /\ params = IntegratorParameters(1, RMax, 1)
    /\ eval = [r \in Radii |-> <<1, 0>>]
    /\ f = [i \in Threads |-> EmptySolution]
    /\ Idle
    /\ sol = EmptySolution /\ ops = <<>> /\ arg = NoArg /\ ret = NoRet
    /\ given = [eval |-> eval, params |-> params]

\* observer(sol, x, r)
RecObserve ==
    /\ Len(ops) < MaxOps
    /\ Len(sol[1]) < MaxLen
    /\ \E r \in RecRadii, x \in RecStates :
          /\ sol' = observer(sol, x, r)
          /\ ops' = Append(ops, [op |-> "observe", r |-> r, x |-> x, before |-> sol])
    /\ UNCHANGED <<params, eval, f, pc, st, pre, emitted, evald, nrev, arg, ret, given>>

\* reverse(sol)
RecReverse ==
    /\ Len(ops) < MaxOps
    /\ sol' = reverse(sol)
    /\ ops' = Append(ops, [op |-> "reverse", r |-> 0, x |-> <<0, 0>>, before |-> sol])
    /\ UNCHANGED <<params, eval, f, pc, st, pre, emitted, evald, nrev, arg, ret, given>>

NextRec == RecObserve \/ RecReverse

SpecRec == InitRec /\ [][NextRec]_vars

\* the solution right after the k-th operation
After(k) == IF k = Len(ops) THEN sol ELSE ops[k + 1].before

\* C6: reverse(reverse(s)) = s, element for element in all three sequences,
\* for a solution of any length, the empty one included.
C6_ReverseInvolution ==
    \A k \in 1..(Len(ops) - 1) :
        (ops[k].op = "reverse" /\ ops[k + 1].op = "reverse")
            => After(k + 1) = ops[k].before

\* reverse was applied twice in a row to a solution of three entries that
\* one reverse changes
C6_Witness ==
    /\ Len(ops) = 5
    /\ ops[4].op = "reverse" /\ ops[5].op = "reverse"
    /\ Len(sol[1]) = 3
    /\ ops[5].before # sol

\* how often the triple t occurs in the solution s
Occurrences(s, t) == Cardinality({ k \in 1..Len(s[1]) : Triple(s, k) = t })

\* how often observe was called with the triple t
Observed(t) ==
    Cardinality({ k \in 1..Len(ops) :
                    ops[k].op = "observe" /\ <<ops[k].r, ops[k].x[1], ops[k].x[2]>> = t })

\* C9: under any sequence of observe and reverse from the empty solution
\* the three sequences have the same length; observe makes each one longer
\* by one, appending r, value and derivative at the same index and keeping
\* the earlier entries; reverse moves the triple at index i of n to index
\* n+1-i; so every index holds the triple of one observe call.
C9_LockStep ==
    /\ EqualLengths(sol)
    /\ \A r \in RecRadii, x \in RecStates :
          Occurrences(sol, <<r, x[1], x[2]>>) = Observed(<<r, x[1], x[2]>>)
    /\ \A k \in 1..Len(ops) :
          LET b == ops[k].before
              a == After(k)
              n == Len(b[1])
          IN  IF ops[k].op = "observe"
              THEN /\ \A j \in 1..3 : Len(a[j]) = n + 1 /\ SubSeq(a[j], 1, n) = b[j]
                   /\ Triple(a, n + 1) = <<ops[k].r, ops[k].x[1], ops[k].x[2]>>
              ELSE /\ \A j \in 1..3 : Len(a[j]) = n
                   /\ \A m \in 1..n : Triple(a, m) = Triple(b, n + 1 - m)

\* three different triples were observed, with a reverse before the last
C9_Witness ==
    /\ Len(ops) = 4 /\ Len(sol[1]) = 3
    /\ ops[3].op = "reverse"
    /\ Triple(sol, 1) # Triple(sol, 2) /\ Triple(sol, 2) # Triple(sol, 3)
    /\ Triple(sol, 1) # Triple(sol, 3)

---------------------------------------------------------------------------
\* The evaluators (specification SpecEval): zeta, derivative_zeta, omega and
\* derivative_omega applied to a completed solution

\* MathUtils.hpp: splineInterpolation(point, grid, function); on the integer
\* grid a piecewise-linear interpolant, exact at the sample points and
\* constant outside them
splineInterpolation(point, grid, function) ==
    IF point <= grid[1] THEN function[1]
    ELSE IF point >= Last(grid) THEN Last(function)
    ELSE LET k == CHOOSE k \in 1..(Len(grid) - 1) :
                      grid[k] <= point /\ point < grid[k + 1]
         IN  function[k] + Quot((function[k + 1] - function[k]) * (point - grid[k]),
                                grid[k + 1] - grid[k])

\* variant: zeta with the boundary excluded from the closed form
zetaExclusive(zeta_array, L, point, lower_bound) ==
    IF point < lower_bound
    THEN L * Ln(point)
    ELSE splineInterpolation(point, zeta_array[1], zeta_array[2])

zeta(zeta_array, L, point, lower_bound) ==
    IF point <= lower_bound
    THEN L * Ln(point)
    ELSE splineInterpolation(point, zeta_array[1], zeta_array[2])

derivative_zeta(zeta_array, L, point, lower_bound) ==
    IF point <= lower_bound
    THEN Quot(L * SC, point)
    ELSE splineInterpolation(point, zeta_array[1], zeta_array[3])

omega(omega_array, L, point, upper_bound) ==
    IF point >= upper_bound
    THEN -(L + 1) * Ln(point)
    ELSE splineInterpolation(point, omega_array[1], omega_array[2])

derivative_omega(omega_array, L, point, upper_bound) ==
    IF point >= upper_bound
    THEN Quot(-(L + 1) * SC, point)
    ELSE splineInterpolation(point, omega_array[1], omega_array[3])

\* completed solutions; their values and derivatives lie apart from each
\* other and from every value a closed form takes on the grid
SampleSolutions ==
    { << <<1, RMax>>, <<500, 800>>, <<-600, -900>> >>,
      << <<1, 2, 3>>, <<510, 620, 730>>, <<-410, -520, -630>> >> }

InitEval ==
    /\ params = IntegratorParameters(1, RMax, 1)
    /\ eval = [r \in Radii |-> <<1, 0>>]
    /\ f = [i \in Threads |-> EmptySolution]
    /\ Idle
    /\ sol = EmptySolution /\ ops = <<>>
    /\ arg \in [s : SampleSolutions, L : AngularMomenta, point : Radii, bound : Radii]
    /\ ret = NoRet
    /\ given = [eval |-> eval, params |-> params]

Returns(fn, v) ==
    /\ ret' = [fn |-> fn, v |-> v]
    /\ UNCHANGED <<params, eval, f, pc, st, pre, emitted, evald, nrev, sol, ops, arg, given>>

CallZetaValue == Returns("zeta", zeta(arg.s, arg.L, arg.point, arg.bound))

CallZetaDerivative ==
    Returns("derivative_zeta", derivative_zeta(arg.s, arg.L, arg.point, arg.bound))

CallOmegaValue == Returns("omega", omega(arg.s, arg.L, arg.point, arg.bound))

CallOmegaDerivative ==
    Returns("derivative_omega", derivative_omega(arg.s, arg.L, arg.point, arg.bound))

NextEval ==
    \/ CallZetaValue
    \/ CallZetaDerivative
    \/ CallOmegaValue
    \/ CallOmegaDerivative

SpecEval == InitEval /\ [][NextEval]_vars

\* the closed forms
RegularValue == arg.L * Ln(arg.point)

RegularDerivative == Quot(arg.L * SC, arg.point)

IrregularValue == -((arg.L + 1) * Ln(arg.point))

IrregularDerivative == -Quot((arg.L + 1) * SC, arg.point)

\* C5: zeta and derivative_zeta return L ln(point) and L/point exactly when
\* point <= lower_bound, omega and derivative_omega return -(L+1) ln(point)
\* and -(L+1)/point exactly when point >= upper_bound; otherwise the result
\* is the interpolation of (grid, value) for the value evaluators and of
\* (grid, derivative) for the derivative evaluators.  The boundary itself
\* takes the closed form, whatever the solution holds.
C5_BranchSelection ==
    /\ ret.fn = "zeta" =>
          /\ ret.v = RegularValue <=> arg.point <= arg.bound
          /\ arg.point > arg.bound =>
                ret.v = splineInterpolation(arg.point, arg.s[1], arg.s[2])
    /\ ret.fn = "derivative_zeta" =>
          /\ ret.v = RegularDerivative <=> arg.point <= arg.bound
          /\ arg.point > arg.bound =>
                ret.v = splineInterpolation(arg.point, arg.s[1], arg.s[3])
    /\ ret.fn = "omega" =>
          /\ ret.v = IrregularValue <=> arg.point >= arg.bound
          /\ arg.point < arg.bound =>
                ret.v = splineInterpolation(arg.point, arg.s[1], arg.s[2])
    /\ ret.fn = "derivative_omega" =>
          /\ ret.v = IrregularDerivative <=> arg.point >= arg.bound
          /\ arg.point < arg.bound =>
                ret.v = splineInterpolation(arg.point, arg.s[1], arg.s[3])

\* zeta was evaluated exactly at the lower bound, inside the sampled grid,
\* and returned the closed form, not the sample stored there
C5_Witness ==
    /\ ret.fn = "zeta" /\ arg.point = arg.bound /\ arg.point = 2 /\ arg.L = 1
    /\ ret.v = RegularValue
    /\ ret.v # splineInterpolation(arg.point, arg.s[1], arg.s[2])

===========================================================================
